---- MODULE Spec2Model ----
(***************************************************************************)
(* A model of the recursive-descent JSON parser of src/main.rs.            *)
(*                                                                         *)
(* The parser is modelled as a state machine with an explicit call stack:  *)
(* every function of `impl Parser` is a kind of frame, every loop          *)
(* iteration and every straight-line segment between two calls is one      *)
(* action.  A character is its Unicode code point; the cursor              *)
(* `Peekable<CharIndices>` is the number `pos` of characters already       *)
(* taken from it, and the item it yields for the i-th character is the     *)
(* pair <<byte index, character>>.                                         *)
(***************************************************************************)
EXTENDS Integers, Sequences, FiniteSets, TLC

VARIABLES input, pos, stack, ret, result

vars == <<input, pos, stack, ret, result>>

(***************************************************************************)
(* Characters                                                              *)
(***************************************************************************)

\* The printable ASCII characters, U+0020 .. U+007E, in code point order
\* (U+0060 by name).
AsciiTable ==
    << " ", "!", "\"", "#", "$", "%", "&", "'", "(", ")", "*", "+", ",", "-",
       ".", "/", "0", "1", "2", "3", "4", "5", "6", "7", "8", "9", ":", ";",
       "<", "=", ">", "?", "@", "A", "B", "C", "D", "E", "F", "G", "H", "I",
       "J", "K", "L", "M", "N", "O", "P", "Q", "R", "S", "T", "U", "V", "W",
       "X", "Y", "Z", "[", "\\", "]", "^", "_", "grave", "a", "b", "c", "d", "e",
       "f", "g", "h", "i", "j", "k", "l", "m", "n", "o", "p", "q", "r", "s",
       "t", "u", "v", "w", "x", "y", "z", "{", "|", "}", "~" >>

\* The code point of a character written as a one-character string.
Code(s) ==
    CASE s = "\t" -> 9
      [] s = "\n" -> 10
      [] s = "\r" -> 13
      [] OTHER -> 31 + (CHOOSE i \in 1..Len(AsciiTable) : AsciiTable[i] = s)

\* A text written as a tuple of one-character strings.
Text(t) == [i \in 1..Len(t) |-> Code(t[i])]

SPACE == Code(" ")
TAB == Code("\t")
CR == Code("\r")
LF == Code("\n")
QUOTE == Code("\"")
BACKSLASH == Code("\\")
SLASH == Code("/")
COMMA == Code(",")
COLON == Code(":")
LBRACKET == Code("[")
RBRACKET == Code("]")
LBRACE == Code("{")
RBRACE == Code("}")
MINUS == Code("-")
PLUS == Code("+")
DOT == Code(".")
ZERO == Code("0")
NINE == Code("9")

\* U+00E9, a character whose UTF-8 encoding takes two bytes.
E_ACUTE == 14 * 16 + 9

Whitespace == {SPACE, TAB, CR, LF}

Digits == ZERO..NINE

\* char::len_utf8: the number of bytes of a character in a &str.
Utf8Len(c) ==
    IF c < 2^7 THEN 1 ELSE IF c < 2^11 THEN 2 ELSE IF c < 2^16 THEN 3 ELSE 4

(***************************************************************************)
(* The cursor: Peekable<CharIndices>                                       *)
(***************************************************************************)

RECURSIVE ByteIndex(_)
\* The byte index CharIndices pairs with the i-th character (i from 1).
ByteIndex(i) == IF i <= 1 THEN 0 ELSE ByteIndex(i - 1) + Utf8Len(input[i - 1])

\* Option::None, and Some((index, ch)) as the pair <<index, ch>>.
None == << >>

\* Item as chars().enumerate() would yield it: the character's offset in
\* characters (a variant of the code, for C3).
ItemEnumerated(i) == <<i - 1, input[i]>>

\* The item CharIndices yields for the i-th character.
Item(i) == <<ByteIndex(i), input[i]>>

\* self.chars.peek()
Peek == IF pos < Len(input) THEN Item(pos + 1) ELSE None

\* The cursor after self.chars.next(): one character on, unless exhausted.
Advance == IF pos < Len(input) THEN pos + 1 ELSE pos

\* The item after the next one: what a second self.chars.next() yields.
Peek2 == IF pos + 1 < Len(input) THEN Item(pos + 2) ELSE None

\* The item after the next two: what a third self.chars.next() yields.
Peek3 == IF pos + 2 < Len(input) THEN Item(pos + 3) ELSE None

IsSome(option) == option # None

\* Some((_, c)) with c in the set `chars`.
Matches(option, chars) == IsSome(option) /\ option[2] \in chars

(***************************************************************************)
(* Values and results                                                      *)
(***************************************************************************)

Null == [type |-> "Null"]
True == [type |-> "True"]
False == [type |-> "False"]
String(string) == [type |-> "String", string |-> string]
Number(f64) == [type |-> "Number", f64 |-> f64]
Array(array) == [type |-> "Array", array |-> array]
Object(key_values) == [type |-> "Object", key_values |-> key_values]

Ok(value) == [ok |-> TRUE, value |-> value]
Err(message) == [ok |-> FALSE, err |-> message]

\* format!("Unexpected token '{}' at position '{}'", ch, index)
UnexpectedToken(ch, index) == <<"Unexpected token", ch, index>>

UnexpectedEndOfInput == <<"Unexpected end of input">>

FailedToParseNumber == <<"Failed to parse number">>

\* Parser::error
Error(data) ==
    IF IsSome(data)
    THEN Err(UnexpectedToken(data[2], data[1]))
    ELSE Err(UnexpectedEndOfInput)

(***************************************************************************)
(* The call stack                                                          *)
(*                                                                         *)
(* A frame is a record: fn names the function, pc the place in its body    *)
(* where it resumes, the other fields are its locals.  The field `entry`   *)
(* is the cursor at the time of the call: a history value the code does    *)
(* not hold, kept to state properties of a call.                           *)
(***************************************************************************)

Top == stack[Len(stack)]

In(fn, pc) == stack # << >> /\ Top.fn = fn /\ Top.pc = pc

\* The running function moves on to `frame` (its own frame, updated).
Goto(frame) == stack' = [stack EXCEPT ![Len(stack)] = frame]

\* The running function, left at `frame`, calls `callee`.
Call(frame, callee) ==
    /\ stack' = Append([stack EXCEPT ![Len(stack)] = frame], callee)
    /\ ret' = << >>

\* The running function returns `value` to its caller.
Return(value) ==
    /\ stack' = SubSeq(stack, 1, Len(stack) - 1)
    /\ ret' = <<value>>

\* The running function returns ().
ReturnUnit ==
    /\ stack' = SubSeq(stack, 1, Len(stack) - 1)
    /\ ret' = << >>

ParseFrame == [fn |-> "parse", pc |-> "start"]

ParseValueFrame(entry) ==
    [fn |-> "parse_value", pc |-> "start", result |-> << >>, entry |-> entry]

ConsumeWhitespaceFrame == [fn |-> "consume_whitespace"]

ParseLiteralFrame(values, value) ==
    [fn |-> "parse_literal", values |-> values, value |-> value]

ParseStringFrame(entry) ==
    [fn |-> "parse_string", pc |-> "loop", string |-> << >>, entry |-> entry]

ParseUnicodeFrame(start, entry) ==
    [fn |-> "parse_unicode", start |-> start, value |-> 0, i |-> 4,
     entry |-> entry]

ParseArrayFrame == [fn |-> "parse_array", pc |-> "start", array |-> << >>]

ParseObjectFrame ==
    [fn |-> "parse_object", pc |-> "start", key_values |-> << >>,
     key |-> << >>]

ParseNumberFrame(ch, entry) ==
    [fn |-> "parse_number", pc |-> "start", ch |-> ch, num |-> << >>,
     pow |-> << >>, entry |-> entry]

\* collect_digits(&mut buffer): `buffer` names the caller's local it extends.
CollectDigitsFrame(buffer) == [fn |-> "collect_digits", buffer |-> buffer]

(***************************************************************************)
(* Parser::consume_whitespace                                              *)
(***************************************************************************)

\* ConsumeWhitespace without self.chars.next(): the whitespace is seen and
\* left (a variant of the code, for C10).
ConsumeWhitespacePeekOnly ==
    /\ stack # << >>
    /\ Top.fn = "consume_whitespace"
    /\ IF Matches(Peek, Whitespace)
       THEN /\ pos' = pos
            /\ UNCHANGED <<stack, ret>>
       ELSE /\ ReturnUnit
            /\ pos' = pos
    /\ UNCHANGED <<input, result>>

\* One iteration of the while-let loop, or its exit.
ConsumeWhitespace ==
    /\ stack # << >>
    /\ Top.fn = "consume_whitespace"
    /\ IF Matches(Peek, Whitespace)
       THEN /\ pos' = pos + 1
            /\ UNCHANGED <<stack, ret>>
       ELSE /\ ReturnUnit
            /\ pos' = pos
    /\ UNCHANGED <<input, result>>

(***************************************************************************)
(* Parser::parse                                                           *)
(***************************************************************************)

ParseStart ==
    /\ In("parse", "start")
    /\ Call([Top EXCEPT !.pc = "value"], ParseValueFrame(pos))
    /\ UNCHANGED <<input, pos, result>>

\* ParseFinish without the match on self.chars.peek(): the value is returned
\* whatever follows it (a variant of the code, for C1).
ParseFinishUnchecked ==
    /\ In("parse", "value")
    /\ result' = ret
    /\ stack' = << >>
    /\ ret' = << >>
    /\ UNCHANGED <<input, pos>>

\* `?` on the value, then the match on self.chars.peek().
ParseFinish ==
    /\ In("parse", "value")
    /\ result' = << IF ~ret[1].ok THEN ret[1]
                    ELSE IF Peek = None THEN Ok(ret[1].value)
                    ELSE Error(Peek) >>
    /\ stack' = << >>
    /\ ret' = << >>
    /\ UNCHANGED <<input, pos>>

(***************************************************************************)
(* Parser::parse_value                                                     *)
(***************************************************************************)

ParseValueStart ==
    /\ In("parse_value", "start")
    /\ Call([Top EXCEPT !.pc = "dispatch"], ConsumeWhitespaceFrame)
    /\ UNCHANGED <<input, pos, result>>

\* The production `match self.chars.next()` selects, as the frame to call,
\* or << >> when no arm but the last (`option => self.error(option)`) matches.
Production(option) ==
    IF ~IsSome(option) THEN << >>
    ELSE LET ch == option[2]
             entry == Advance
         IN  CASE ch = Code("n") ->
                    <<ParseLiteralFrame(Text(<<"u", "l", "l">>), Null)>>
               [] ch = Code("t") ->
                    <<ParseLiteralFrame(Text(<<"r", "u", "e">>), True)>>
               [] ch = Code("f") ->
                    <<ParseLiteralFrame(Text(<<"a", "l", "s", "e">>), False)>>
               [] ch = QUOTE -> <<ParseStringFrame(entry)>>
               [] ch = LBRACKET -> <<ParseArrayFrame>>
               [] ch = LBRACE -> <<ParseObjectFrame>>
               [] ch = MINUS \/ ch \in Digits -> <<ParseNumberFrame(ch, entry)>>
               [] OTHER -> << >>

\* let result = match self.chars.next() { ... }: the call of the production,
\* or the error followed by the call of the second consume_whitespace.
ParseValueDispatch ==
    /\ In("parse_value", "dispatch")
    /\ pos' = Advance
    /\ LET production == Production(Peek)
       IN  IF production # << >>
           THEN Call([Top EXCEPT !.pc = "result"], production[1])
           ELSE Call([Top EXCEPT !.pc = "return", !.result = <<Error(Peek)>>],
                     ConsumeWhitespaceFrame)
    /\ UNCHANGED <<input, result>>

\* The production has returned: self.consume_whitespace().
ParseValueResult ==
    /\ In("parse_value", "result")
    /\ Call([Top EXCEPT !.pc = "return", !.result = ret], ConsumeWhitespaceFrame)
    /\ UNCHANGED <<input, pos, result>>

ParseValueReturn ==
    /\ In("parse_value", "return")
    /\ Return(Top.result[1])
    /\ UNCHANGED <<input, pos, result>>

(***************************************************************************)
(* Parser::parse_literal                                                   *)
(***************************************************************************)

\* One iteration of `for &expected in values`, or the Ok(value) after it.
ParseLiteral ==
    /\ stack # << >>
    /\ Top.fn = "parse_literal"
    /\ IF Top.values = << >>
       THEN /\ Return(Ok(Top.value))
            /\ pos' = pos
       ELSE /\ pos' = Advance
            /\ IF Matches(Peek, {Head(Top.values)})
               THEN /\ Goto([Top EXCEPT !.values = Tail(@)])
                    /\ ret' = ret
               ELSE Return(Error(Peek))
    /\ UNCHANGED <<input, result>>

(***************************************************************************)
(* Parser::parse_string and Parser::parse_unicode                          *)
(***************************************************************************)

\* Escape with the two arms the code comments out, \b and \f (a variant of
\* the code, for C8).
EscapeWithControls(c) ==
    CASE c \in {QUOTE, BACKSLASH, SLASH} -> <<c>>
      [] c = Code("n") -> <<LF>>
      [] c = Code("b") -> <<8>>
      [] c = Code("r") -> <<CR>>
      [] c = Code("f") -> <<12>>
      [] c = Code("t") -> <<TAB>>
      [] OTHER -> << >>

\* The character an escape `\c` pushes, as <<character>>, for the arms of the
\* inner match that push one; << >> for every other c.
Escape(c) ==
    CASE c \in {QUOTE, BACKSLASH, SLASH} -> <<c>>
      [] c = Code("n") -> <<LF>>
      [] c = Code("r") -> <<CR>>
      [] c = Code("t") -> <<TAB>>
      [] OTHER -> << >>

\* One iteration of `while let Some((_, ch)) = self.chars.next()`, or the
\* self.error(None) after the loop.
ParseString ==
    /\ In("parse_string", "loop")
    /\ LET option == Peek
           data == Peek2
       IN  IF ~IsSome(option)
           THEN /\ Return(Error(None))
                /\ pos' = pos
           ELSE IF option[2] = QUOTE
           THEN /\ Return(Ok(String(Top.string)))
                /\ pos' = pos + 1
           ELSE IF option[2] # BACKSLASH
           THEN /\ Goto([Top EXCEPT !.string = Append(@, option[2])])
                /\ ret' = ret
                /\ pos' = pos + 1
           ELSE IF IsSome(data) /\ Escape(data[2]) # << >>
           THEN /\ Goto([Top EXCEPT !.string = Append(@, Escape(data[2])[1])])
                /\ ret' = ret
                /\ pos' = pos + 2
           ELSE IF Matches(data, {Code("u")})
           THEN /\ Call([Top EXCEPT !.pc = "unicode"],
                        ParseUnicodeFrame(data[1], pos + 2))
                /\ pos' = pos + 2
           ELSE /\ Return(Error(data))
                /\ pos' = IF IsSome(data) THEN pos + 2 ELSE pos + 1
    /\ UNCHANGED <<input, result>>

\* string.push(self.parse_unicode(start)?)
ParseStringUnicode ==
    /\ In("parse_string", "unicode")
    /\ IF ret[1].ok
       THEN /\ Goto([Top EXCEPT !.pc = "loop",
                                !.string = Append(@, ret[1].value)])
            /\ ret' = << >>
       ELSE Return(ret[1])
    /\ UNCHANGED <<input, pos, result>>

\* The value of a hexadecimal digit, as <<value>>; << >> for any other
\* character.
HexDigit(c) ==
    IF c \in Digits THEN <<c - ZERO>>
    ELSE IF c \in Code("a")..Code("f") THEN <<10 + c - Code("a")>>
    ELSE IF c \in Code("A")..Code("F") THEN <<10 + c - Code("A")>>
    ELSE << >>

\* u32 arithmetic wraps at 2^32 (a release build; a debug build panics):
\* n % 2^32, written on the two 16-bit halves of n.
U32(n) ==
    IF (n \div (2^16)) < 2^16 THEN n
    ELSE (2^16 * ((n \div 2^16) % (2^16))) + (n % (2^16))

\* char::from_u32_unchecked: every value taken for a character (a variant
\* of the code, for C9).
CharFromU32Unchecked(value) == <<value>>

\* char::from_u32: None for a surrogate (D800..DFFF) and above 10FFFF.
CharFromU32(value) ==
    IF value \in (13 * 16^3 + 8 * 16^2)..(14 * 16^3 - 1) \/ value > 17 * 16^4 - 1
    THEN None
    ELSE <<value>>

\* One iteration of `for i in (0..4).rev()` (i counts the iterations left),
\* or the match on char::from_u32 after it.
ParseUnicode ==
    /\ stack # << >>
    /\ Top.fn = "parse_unicode"
    /\ IF Top.i > 0
       THEN /\ pos' = Advance
            /\ IF IsSome(Peek) /\ HexDigit(Peek[2]) # << >>
               THEN /\ Goto([Top EXCEPT
                               !.value = U32(@ + 16^(Top.i - 1) * HexDigit(Peek[2])[1]),
                               !.i = @ - 1])
                    /\ ret' = ret
               ELSE Return(Error(Peek))
       ELSE /\ pos' = pos
            /\ IF IsSome(CharFromU32(Top.value))
               THEN Return(Ok(CharFromU32(Top.value)[1]))
               ELSE Return(Error(<<Top.start, Code("u")>>))
    /\ UNCHANGED <<input, result>>

(***************************************************************************)
(* Parser::collect_digits and Parser::parse_number                         *)
(***************************************************************************)

\* One iteration of the while-let loop, or its exit.  The buffer is a local
\* of the caller, the frame below.
CollectDigits ==
    /\ stack # << >>
    /\ Top.fn = "collect_digits"
    /\ IF Matches(Peek, Digits)
       THEN /\ pos' = pos + 1
            /\ stack' = [stack EXCEPT ![Len(stack) - 1][Top.buffer] =
                                          Append(@, Peek[2])]
            /\ ret' = ret
       ELSE /\ ReturnUnit
            /\ pos' = pos
    /\ UNCHANGED <<input, result>>

RECURSIVE DigitRunEnd(_, _)
\* The first index from i on at which s holds no digit (Len(s) + 1 if none).
DigitRunEnd(s, i) ==
    IF i <= Len(s) /\ s[i] \in Digits THEN DigitRunEnd(s, i + 1) ELSE i

RECURSIVE DigitsValue(_)
\* The number a run of decimal digits denotes (0 for the empty run).
DigitsValue(digits) ==
    IF digits = << >> THEN 0
    ELSE 10 * DigitsValue(SubSeq(digits, 1, Len(digits) - 1))
         + (digits[Len(digits)] - ZERO)

RECURSIVE Decimal(_, _, _)
\* The number (-1)^negative * mantissa * 10^exponent, in normal form: the
\* mantissa not divisible by ten, or zero with exponent zero.  The sign is
\* kept for zero, as f64 keeps it.
Decimal(negative, mantissa, exponent) ==
    IF mantissa = 0
    THEN [negative |-> negative, mantissa |-> 0, exponent |-> 0]
    ELSE IF mantissa % 10 = 0
    THEN Decimal(negative, mantissa \div 10, exponent + 1)
    ELSE [negative |-> negative, mantissa |-> mantissa, exponent |-> exponent]

\* str::parse::<f64>, as <<number>> or << >> (Err), on texts of signs, digits,
\* '.', 'e' and 'E':  [sign] (digits ['.' digits*] | '.' digits+) [exponent],
\* the whole text.  The number is kept as the decimal the text denotes, which
\* for the short texts of this model determines the f64.
ParseF64(text) ==
    LET n == Len(text)
        signed == n >= 1 /\ text[1] \in {MINUS, PLUS}
        i0 == IF signed THEN 2 ELSE 1
        i1 == DigitRunEnd(text, i0)
        dotted == i1 <= n /\ text[i1] = DOT
        i2 == IF dotted THEN DigitRunEnd(text, i1 + 1) ELSE i1
        integer == SubSeq(text, i0, i1 - 1)
        fraction == IF dotted THEN SubSeq(text, i1 + 1, i2 - 1) ELSE << >>
        scaled == i2 <= n /\ text[i2] \in {Code("e"), Code("E")}
        esigned == scaled /\ i2 + 1 <= n /\ text[i2 + 1] \in {MINUS, PLUS}
        i3 == IF ~scaled THEN i2 ELSE IF esigned THEN i2 + 2 ELSE i2 + 1
        i4 == IF scaled THEN DigitRunEnd(text, i3) ELSE i2
        power == SubSeq(text, i3, i4 - 1)
        exponent == IF esigned /\ text[i2 + 1] = MINUS
                    THEN 0 - DigitsValue(power)
                    ELSE DigitsValue(power)
    IN  IF /\ Len(integer) + Len(fraction) > 0
           /\ scaled => Len(power) > 0
           /\ i4 = n + 1
        THEN <<Decimal(signed /\ text[1] = MINUS,
                       DigitsValue(integer \o fraction),
                       exponent - Len(fraction))>>
        ELSE << >>

\* 0f64
ZeroF64 == Decimal(FALSE, 0, 0)

\* `match ch { ... }`, up to the first call of collect_digits.
ParseNumberStart ==
    /\ In("parse_number", "start")
    /\ IF Top.ch = ZERO
       THEN /\ pos' = pos
            /\ IF Matches(Peek, {DOT, Code("E"), Code("e")})
               THEN /\ Goto([Top EXCEPT !.pc = "fraction"])
                    /\ ret' = ret
               ELSE Return(Ok(Number(ZeroF64)))
       ELSE IF Top.ch = MINUS
       THEN /\ pos' = Advance
            /\ IF Matches(Peek, Digits)
               THEN Call([Top EXCEPT !.pc = "fraction",
                                     !.num = <<Top.ch, Peek[2]>>],
                         CollectDigitsFrame("num"))
               ELSE Return(Error(Peek))
       ELSE /\ pos' = pos
            /\ Call([Top EXCEPT !.pc = "fraction", !.num = <<Top.ch>>],
                    CollectDigitsFrame("num"))
    /\ UNCHANGED <<input, result>>

\* if self.consume('.') { num.push('.'); self.collect_digits(&mut num); }
ParseNumberFraction ==
    /\ In("parse_number", "fraction")
    /\ IF Matches(Peek, {DOT})
       THEN /\ pos' = pos + 1
            /\ Call([Top EXCEPT !.pc = "exponent", !.num = Append(@, DOT)],
                    CollectDigitsFrame("num"))
       ELSE /\ pos' = pos
            /\ Goto([Top EXCEPT !.pc = "exponent"])
            /\ ret' = ret
    /\ UNCHANGED <<input, result>>

\* The exponent: the marker, an optional sign into pow, one digit into pow,
\* then collect_digits(&mut pow).
ParseNumberExponent ==
    /\ In("parse_number", "exponent")
    /\ IF Matches(Peek, {Code("e"), Code("E")})
       THEN LET signed == Matches(Peek2, {PLUS, MINUS})
                sign == IF signed THEN <<Peek2[2]>> ELSE << >>
                option == IF signed THEN Peek3 ELSE Peek2
                after == IF signed THEN pos + 2 ELSE pos + 1
            IN  /\ pos' = IF IsSome(option) THEN after + 1 ELSE after
                /\ IF Matches(option, Digits)
                   THEN Call([Top EXCEPT !.pc = "convert",
                                         !.pow = Append(sign, option[2])],
                             CollectDigitsFrame("pow"))
                   ELSE Return(Error(option))
       ELSE /\ pos' = pos
            /\ Goto([Top EXCEPT !.pc = "convert"])
            /\ ret' = ret
    /\ UNCHANGED <<input, result>>

\* The text handed to the conversion.
Literal(frame) == frame.num

\* match num.parse::<f64>()
ParseNumberConvert ==
    /\ In("parse_number", "convert")
    /\ IF ParseF64(Literal(Top)) # << >>
       THEN Return(Ok(Number(ParseF64(Literal(Top))[1])))
       ELSE Return(Err(FailedToParseNumber))
    /\ UNCHANGED <<input, pos, result>>

(***************************************************************************)
(* Parser::parse_array                                                     *)
(***************************************************************************)

ParseArrayStart ==
    /\ In("parse_array", "start")
    /\ Call([Top EXCEPT !.pc = "first"], ConsumeWhitespaceFrame)
    /\ UNCHANGED <<input, pos, result>>

\* if !self.consume(']') { loop { let value = self.parse_value()?; ...
ParseArrayFirst ==
    /\ In("parse_array", "first")
    /\ IF Matches(Peek, {RBRACKET})
       THEN /\ pos' = pos + 1
            /\ Return(Ok(Array(Top.array)))
       ELSE /\ pos' = pos
            /\ Call([Top EXCEPT !.pc = "push"], ParseValueFrame(pos))
    /\ UNCHANGED <<input, result>>

\* array.push(value)
ArrayPush(array, value) == Append(array, value)

\* ParseArrayPush that lets a ']' follow the ',': a trailing comma is
\* tolerated (a variant of the code, for C6).
ParseArrayPushTrailingComma ==
    /\ In("parse_array", "push")
    /\ IF ~ret[1].ok
       THEN /\ Return(ret[1])
            /\ pos' = pos
       ELSE LET array == ArrayPush(Top.array, ret[1].value)
            IN  IF Matches(Peek, {COMMA}) /\ Matches(Peek2, {RBRACKET})
                THEN /\ pos' = pos + 2
                     /\ Return(Ok(Array(array)))
                ELSE IF Matches(Peek, {COMMA})
                THEN /\ pos' = pos + 1
                     /\ Call([Top EXCEPT !.array = array],
                             ParseValueFrame(pos + 1))
                ELSE /\ pos' = Advance
                     /\ IF Matches(Peek, {RBRACKET})
                        THEN Return(Ok(Array(array)))
                        ELSE Return(Error(Peek))
    /\ UNCHANGED <<input, result>>

\* The element has returned: `?`, the push, then the next element after a
\* ',' or the end of the array after a ']'.
ParseArrayPush ==
    /\ In("parse_array", "push")
    /\ IF ~ret[1].ok
       THEN /\ Return(ret[1])
            /\ pos' = pos
       ELSE LET array == ArrayPush(Top.array, ret[1].value)
            IN  IF Matches(Peek, {COMMA})
                THEN /\ pos' = pos + 1
                     /\ Call([Top EXCEPT !.array = array],
                             ParseValueFrame(pos + 1))
                ELSE /\ pos' = Advance
                     /\ IF Matches(Peek, {RBRACKET})
                        THEN Return(Ok(Array(array)))
                        ELSE Return(Error(Peek))
    /\ UNCHANGED <<input, result>>

(***************************************************************************)
(* Parser::parse_object                                                    *)
(***************************************************************************)

ParseObjectStart ==
    /\ In("parse_object", "start")
    /\ Call([Top EXCEPT !.pc = "first"], ConsumeWhitespaceFrame)
    /\ UNCHANGED <<input, pos, result>>

\* if !self.consume('}') { loop { self.consume_whitespace(); ...
ParseObjectFirst ==
    /\ In("parse_object", "first")
    /\ IF Matches(Peek, {RBRACE})
       THEN /\ pos' = pos + 1
            /\ Return(Ok(Object(Top.key_values)))
       ELSE /\ pos' = pos
            /\ Call([Top EXCEPT !.pc = "key"], ConsumeWhitespaceFrame)
    /\ UNCHANGED <<input, result>>

\* self.try_consume('"')?; let key = self.parse_string()
ParseObjectKey ==
    /\ In("parse_object", "key")
    /\ pos' = Advance
    /\ IF Matches(Peek, {QUOTE})
       THEN Call([Top EXCEPT !.pc = "key_done"], ParseStringFrame(pos + 1))
       ELSE Return(Error(Peek))
    /\ UNCHANGED <<input, result>>

\* `?` on the key, then self.consume_whitespace()
ParseObjectKeyDone ==
    /\ In("parse_object", "key_done")
    /\ IF ret[1].ok
       THEN Call([Top EXCEPT !.pc = "colon", !.key = ret[1].value],
                 ConsumeWhitespaceFrame)
       ELSE Return(ret[1])
    /\ UNCHANGED <<input, pos, result>>

\* self.try_consume(':')?; let value = self.parse_value()
ParseObjectColon ==
    /\ In("parse_object", "colon")
    /\ pos' = Advance
    /\ IF Matches(Peek, {COLON})
       THEN Call([Top EXCEPT !.pc = "value"], ParseValueFrame(pos + 1))
       ELSE Return(Error(Peek))
    /\ UNCHANGED <<input, result>>

\* ObjectPush as a map's insert: the value of a key already there is
\* replaced (a variant of the code, for C7).
ObjectPushLastWins(key_values, key, value) ==
    IF \E i \in DOMAIN key_values : key_values[i][1] = key.string
    THEN [i \in DOMAIN key_values |->
            IF key_values[i][1] = key.string
            THEN <<key.string, value>>
            ELSE key_values[i]]
    ELSE Append(key_values, <<key.string, value>>)

\* key_values.push((key.to_string().unwrap(), value))
ObjectPush(key_values, key, value) == Append(key_values, <<key.string, value>>)

\* The member's value has returned: `?`, the push, then the next member
\* after a ',' or the end of the object after a '}'.
ParseObjectValue ==
    /\ In("parse_object", "value")
    /\ IF ~ret[1].ok
       THEN /\ Return(ret[1])
            /\ pos' = pos
       ELSE LET key_values == ObjectPush(Top.key_values, Top.key, ret[1].value)
            IN  IF Matches(Peek, {COMMA})
                THEN /\ pos' = pos + 1
                     /\ Call([Top EXCEPT !.pc = "key", !.key_values = key_values],
                             ConsumeWhitespaceFrame)
                ELSE /\ pos' = Advance
                     /\ IF Matches(Peek, {RBRACE})
                        THEN Return(Ok(Object(key_values)))
                        ELSE Return(Error(Peek))
    /\ UNCHANGED <<input, result>>

(***************************************************************************)
(* The inputs and the specification                                        *)
(***************************************************************************)

\* The texts over `alphabet` of at most n characters.
Texts(alphabet, n) == UNION { [1..k -> alphabet] : k \in 0..n }

\* The texts that continue one of `prefixes` by at most n characters of
\* `alphabet`.
Continuations(prefixes, alphabet, n) ==
    { prefix \o t : prefix \in prefixes, t \in Texts(alphabet, n) }

MaxNumberLen == 3
MaxLiteralLen == 4
MaxStringLen == 4
MaxEscapeLen == 2
MaxUnicodeLen == 4
MaxArrayLen == 4
MaxMemberLen == 4
MaxObjectLen == 3

\* Numbers: signs, a leading zero, fractions and exponents.
NumberInputs ==
    Continuations({<< >>},
                  { MINUS, ZERO, Code("1"), DOT, Code("e"), PLUS },
                  MaxNumberLen)
    \cup { Text(<<"1", "E", "1">>), Text(<<"0", "E", "1">>),
           Text(<<"1", "e", "+", "1">>), Text(<<"0", ".", "5", "e", "-", "1">>),
           Text(<<"-", "1", ".", "5", "e", "+", "1", "0">>),
           Text(<<"[", "0", "0", "]">>), Text(<<"[", "-", "0", "1", "]">>) }

\* A literal and what surrounds a value at the top level.
LiteralInputs ==
    Continuations({<< >>}, { Code("n"), Code("u"), Code("l"), SPACE },
                  MaxLiteralLen)

\* String bodies: plain characters, a two-byte character, escapes, the closing
\* quote and what follows it; then every escape character on its own.
StringInputs ==
    Continuations({<<QUOTE>>},
                  { QUOTE, BACKSLASH, Code("n"), E_ACUTE },
                  MaxStringLen)
    \cup { Text(<<"\"", "\\", "n", "\\", "t", "\"">>) }
    \cup Continuations({ <<QUOTE, BACKSLASH, c>> :
                           c \in { QUOTE, BACKSLASH, SLASH, Code("n"), Code("r"),
                                   Code("t"), Code("b"), Code("f"), Code("0"),
                                   SPACE, E_ACUTE } },
                       { QUOTE, Code("n") },
                       MaxEscapeLen)

\* Unicode escapes: short and broken ones, then whole ones with digits of
\* both cases around the surrogate range, closed or not; two escapes in a row.
UnicodeInputs ==
    LET u == <<QUOTE, BACKSLASH, Code("u")>>
        escapes ==
            { u \o <<d1, d2, d3, d4>> :
                d1 \in { ZERO, Code("D"), Code("d"), Code("e"), Code("F") },
                d2 \in { ZERO, Code("7"), Code("8"), Code("f") },
                d3 \in { ZERO, Code("4"), Code("A"), Code("f") },
                d4 \in { ZERO, Code("1"), Code("a"), Code("F") } }
    IN  Continuations({u}, { ZERO, Code("D"), Code("g"), QUOTE },
                      MaxUnicodeLen)
        \cup escapes
        \cup { escape \o <<QUOTE>> : escape \in escapes }
        \cup { Text(<<"\"", "\\", "u", "D", "8", "3", "D",
                      "\\", "u", "D", "E", "0", "0", "\"">>),
               Text(<<"\"", "\\", "u", "0", "0", "4", "1",
                      "\\", "u", "0", "0", "e", "9", "\"">>) }

\* Arrays: nesting and separators; whitespace; brackets inside a string.
ArrayInputs ==
    Continuations({<<LBRACKET>>},
                  { LBRACKET, RBRACKET, COMMA, ZERO, Code("1") },
                  MaxArrayLen)
    \cup { Text(<<"[", " ", ",", "0", "]">>),
           Text(<<"[", "1", " ", ",", " ", "]">>),
           Text(<<"[", "1", ",", "\t", ",", "1", "]">>),
           Text(<<"[", "\"", "]", "[", "\"", ",", "[", "0", "]", "]">>),
           Text(<<"[", "[", "0", ",", "1", "]", ",", "[", "]", ",", "0", "]">>) }

\* Objects: from inside the first key, after a first member, and from inside
\* the key of a second member.
ObjectInputs ==
    LET member == Text(<<"{", "\"", "\"", ":", "0">>)
    IN  Continuations({<<LBRACE, QUOTE>>},
                      { QUOTE, COLON, ZERO, RBRACE },
                      MaxMemberLen)
        \cup Continuations({member \o <<COMMA, QUOTE>>},
                           { QUOTE, COLON, Code("1"), RBRACE },
                           MaxMemberLen)
        \cup Continuations({<<LBRACE>>, member}, { COMMA, RBRACE, QUOTE, SPACE },
                           MaxObjectLen)
        \cup { Text(<<"{", "\"", "\"", ":", "0", " ", ",", " ", "}">>),
               Text(<<"{", "\"", "a", "\"", ":", "[", "{", "}", "]", ",",
                      "\"", "a", "\"", ":", "{", "\"", "b", "\"", ":", "1",
                      "}", "}">>) }

\* The assertions of test_parse: each input with the result it asserts.
test_parse ==
    <<
      <<Text(<<"n", "u", "l", "l">>),
        Ok(Null)>>,
      <<Text(<<"t", "r", "u", "e">>),
        Ok(True)>>,
      <<Text(<<"f", "a", "l", "s", "e">>),
        Ok(False)>>,
      <<Text(<<" ", " ", " ", "n", "u", "l", "l", " ", " ", " ">>),
        Ok(Null)>>,
      <<Text(<<"\"", "\"">>),
        Ok(String(<< >>))>>,
      <<Text(<<"\"", "\\", "u", "0", "0", "4", "1", "\"">>),
        Ok(String(Text(<<"A">>)))>>,
      <<Text(<<"\"", "n", "u", "l", "l", "\"">>),
        Ok(String(Text(<<"n", "u", "l", "l">>)))>>,
      <<Text(<<"\"", "n", "u", "\\", "\"", "l", "l", "\"">>),
        Ok(String(Text(<<"n", "u", "\"", "l", "l">>)))>>,
      <<Text(<<"\"", "n", "u", "\\", "\\", "l", "l", "\"">>),
        Ok(String(Text(<<"n", "u", "\\", "l", "l">>)))>>,
      <<Text(<<"\"", "n", "u", "\\", "\\", "l", "l", "\"", "1">>),
        Err(UnexpectedToken(Code("1"), 8))>>,
      <<Text(<<"\"", "n", "u", "\\", "\\", "l", "l", "\"", " ", " ", "1">>),
        Err(UnexpectedToken(Code("1"), 10))>>,
      <<Text(<<"\"", "n", "u", "\\", "\\", "l", "l">>),
        Err(UnexpectedEndOfInput)>>,
      <<Text(<<"0">>),
        Ok(Number(Decimal(FALSE, 0, 0)))>>,
      <<Text(<<"-", "0">>),
        Ok(Number(Decimal(TRUE, 0, 0)))>>,
      <<Text(<<"1">>),
        Ok(Number(Decimal(FALSE, 1, 0)))>>,
      <<Text(<<"1", ".", "0">>),
        Ok(Number(Decimal(FALSE, 1, 0)))>>,
      <<Text(<<"3", ".", "1", "4">>),
        Ok(Number(Decimal(FALSE, 314, 0 - 2)))>>,
      <<Text(<<"[", "]">>),
        Ok(Array(<<>>))>>,
      <<Text(<<"[">>),
        Err(UnexpectedEndOfInput)>>,
      <<Text(<<" ", " ", " ", "[", " ", " ", " ", " ", " ", "]", " ", " ", " ">>),
        Ok(Array(<<>>))>>,
      <<Text(<<"[", "1", "]">>),
        Ok(Array(<<Number(Decimal(FALSE, 1, 0))>>))>>,
      <<Text(<<" ", " ", "[", " ", " ", "1", " ", " ", "]", " ", " ">>),
        Ok(Array(<<Number(Decimal(FALSE, 1, 0))>>))>>,
      <<Text(<<"[", "1", ",", "]">>),
        Err(UnexpectedToken(Code("]"), 3))>>,
      <<Text(<<"[", ",", "]">>),
        Err(UnexpectedToken(Code(","), 1))>>,
      <<Text(<<"[", "[", "[", "]", "]", "]">>),
        Ok(Array(<<Array(<<Array(<<>>)>>)>>))>>,
      <<Text(<<"[", "[", "[", "1", "]", ",", " ", "2", "]", ",", " ", "3", "]">>),
        Ok(Array(<<Array(<<Array(<<Number(Decimal(FALSE, 1, 0))>>), Number(Decimal(FALSE, 2, 0))>>), Number(Decimal(FALSE, 3, 0))>>))>>,
      <<Text(<<"{", "}">>),
        Ok(Object(<<>>))>>,
      <<Text(<<"{", " ", "\"", "h", "e", "l", "l", "o", "\"", " ", ":", " ", "\"", "w", "o", "r", "l", "d", "\"", " ", " ", "}", " ", " ">>),
        Ok(Object(<<<<Text(<<"h", "e", "l", "l", "o">>), String(Text(<<"w", "o", "r", "l", "d">>))>>>>))>>,
      <<Text(<<"{", " ", "\"", "c", "\"", " ", ":", " ", "\"", "u", "\"", " ", " ", ",", " ", " ", "\"", "l", "\"", ":", " ", "8", " ", " ", "}", " ", " ">>),
        Ok(Object(<<<<Text(<<"c">>), String(Text(<<"u">>))>>, <<Text(<<"l">>), Number(Decimal(FALSE, 8, 0))>>>>))>>,
      <<Text(<<"{", "\"", "c", "\"", ":", "t", "r", "u", "e", ",", "\"", "l", "\"", ":", "n", "u", "l", "l", "}">>),
        Ok(Object(<<<<Text(<<"c">>), True>>, <<Text(<<"l">>), Null>>>>))>>,
      <<Text(<<"{", "\"", "c", "\"", ":", "t", "r", "u", "e", ",", "}">>),
        Err(UnexpectedToken(Code("}"), 10))>>,
      <<Text(<<"{", "\"", "c", "\"", ":", "t", "r", "a", "}">>),
        Err(UnexpectedToken(Code("a"), 7))>>
    >>

TestInputs == { test_parse[i][1] : i \in DOMAIN test_parse }

Inputs ==
    NumberInputs \cup LiteralInputs \cup StringInputs \cup UnicodeInputs
    \cup ArrayInputs \cup ObjectInputs \cup TestInputs

\* fn parse(string): a parser over string.char_indices().peekable()
Init ==
    /\ input \in Inputs
    /\ pos = 0
    /\ stack = <<ParseFrame>>
    /\ ret = << >>
    /\ result = << >>

Next ==
    \/ ParseStart
    \/ ParseFinish
    \/ ParseValueStart
    \/ ParseValueDispatch
    \/ ParseValueResult
    \/ ParseValueReturn
    \/ ConsumeWhitespace
    \/ ParseLiteral
    \/ ParseString
    \/ ParseStringUnicode
    \/ ParseUnicode
    \/ CollectDigits
    \/ ParseNumberStart
    \/ ParseNumberFraction
    \/ ParseNumberExponent
    \/ ParseNumberConvert
    \/ ParseArrayStart
    \/ ParseArrayFirst
    \/ ParseArrayPush
    \/ ParseObjectStart
    \/ ParseObjectFirst
    \/ ParseObjectKey
    \/ ParseObjectKeyDone
    \/ ParseObjectColon
    \/ ParseObjectValue

Spec == Init /\ [][Next]_vars

\* The model against the repository's own test: every assertion of
\* test_parse holds of the result the model computes.
TestsPass ==
    \A i \in DOMAIN test_parse :
        (result # << >> /\ input = test_parse[i][1]) => result[1] = test_parse[i][2]

(***************************************************************************)
(* Notions the properties are stated with                                  *)
(***************************************************************************)

Done == result # << >>

\* The parse has failed with this error message.
Failed(message) == Done /\ ~result[1].ok /\ result[1].err = message

\* The number of bytes of the UTF-8 encoding of a character.
EncodedLength(c) ==
    IF c <= 127 THEN 1 ELSE IF c <= 2047 THEN 2 ELSE IF c <= 65535 THEN 3 ELSE 4

RECURSIVE PrecedingBytes(_)
\* The number of bytes of the input that precede its i-th character.
PrecedingBytes(i) ==
    IF i <= 1 THEN 0 ELSE PrecedingBytes(i - 1) + EncodedLength(input[i - 1])

\* The set of characters of a text.
Chars(text) == { text[i] : i \in DOMAIN text }

(***************************************************************************)
(* C1                                                                      *)
(***************************************************************************)

\* A step of consume_whitespace takes whitespace only.
WhitespaceOnly ==
    (stack # << >> /\ Top.fn = "consume_whitespace" /\ pos' > pos)
        => (pos' = pos + 1 /\ input[pos'] \in Whitespace)

\* The step that ends parse, the value parsed and characters left: the result
\* is UnexpectedToken with the next character, which is no whitespace, and
\* the number of bytes before it.
TrailingRejected ==
    (In("parse", "value") /\ ret[1].ok /\ pos < Len(input))
        => /\ input[pos + 1] \notin Whitespace
           /\ result' = <<Err(UnexpectedToken(input[pos + 1],
                                              PrecedingBytes(pos + 1)))>>

\* C1: parse returns a value only if the cursor is exhausted after one value
\* and the whitespace around it; when the dispatcher has returned a value and
\* a character is left (after the whitespace that follows the value, which is
\* all the dispatcher skips), parse fails with UnexpectedToken carrying that
\* character, the first non-whitespace one after the value, and its position
\* from the start of the input.
C1_TrailingInput ==
    /\ [](Done /\ result[1].ok => pos = Len(input))
    /\ [][TrailingRejected]_vars
    /\ [][WhitespaceOnly]_vars

\* parse("\"nu\\\\ll\"  1"): the string, two spaces, then '1' at position 10.
C1_Witness ==
    /\ input = Text(<<"\"", "n", "u", "\\", "\\", "l", "l", "\"", " ", " ", "1">>)
    /\ Failed(UnexpectedToken(Code("1"), 10))

(***************************************************************************)
(* C2                                                                      *)
(***************************************************************************)

\* C2: whatever the input, parse returns a value or an error of one of two
\* kinds, "Unexpected end of input" or "Unexpected token <char> at position
\* <index>"; no input, and none that starts a number with 0 followed by '.',
\* 'e' or 'E', gives any other error.
C2_TwoErrorKinds ==
    (Done /\ ~result[1].ok)
        => result[1].err[1] \in {"Unexpected end of input", "Unexpected token"}

(***************************************************************************)
(* C3                                                                      *)
(***************************************************************************)

\* The UnexpectedToken errors in flight or returned: the value a callee has
\* just returned, and the result of parse.
TokenErrors ==
    { r \in Chars(ret) \cup Chars(result) :
        ~r.ok /\ r.err[1] = "Unexpected token" }

\* C3, as claimed: the position of every UnexpectedToken error is the
\* character offset of the offending character: the character of the error
\* is the one that many characters into the input.
C3_CharacterOffset ==
    \A r \in TokenErrors :
        /\ r.err[3] + 1 \in 1..Len(input)
        /\ input[r.err[3] + 1] = r.err[2]

\* C3, amended: the position of every UnexpectedToken error is the byte
\* offset of the offending character: the character of the error is the
\* character of the input that this many bytes precede.
C3_ByteOffset ==
    \A r \in TokenErrors :
        \E i \in 1..Len(input) :
            /\ PrecedingBytes(i) = r.err[3]
            /\ input[i] = r.err[2]

\* The string of one two-byte character, then 'n': 'n' is the fourth
\* character, at character offset 3, and is reported at position 4.
C3_Witness ==
    /\ input = <<QUOTE, E_ACUTE, QUOTE, Code("n")>>
    /\ Failed(UnexpectedToken(Code("n"), 4))

(***************************************************************************)
(* C4                                                                      *)
(***************************************************************************)

\* C4: the text handed to the floating-point conversion is the literal as
\* consumed: the characters of the input from the number's first character
\* (the one passed in) to the last one consumed, in order, none left out.
C4_WholeLiteralConverted ==
    In("parse_number", "convert")
        => Literal(Top) = SubSeq(input, Top.entry, pos)

(***************************************************************************)
(* C5                                                                      *)
(***************************************************************************)

\* A number's integer part can start at i: at the start of the input or after
\* a bracket, a separator or whitespace, or after the '-' that stands there.
IntegerPartAt(i) ==
    LET starts(k) ==
            k = 1 \/ input[k - 1] \in {LBRACKET, COMMA, COLON} \cup Whitespace
    IN  starts(i) \/ (i > 1 /\ input[i - 1] = MINUS /\ starts(i - 1))

\* Outside any string, an integer part is 0 followed by another digit.
SuperfluousZero ==
    /\ QUOTE \notin Chars(input)
    /\ \E i \in 1..(Len(input) - 1) :
           /\ IntegerPartAt(i)
           /\ input[i] = ZERO
           /\ input[i + 1] \in Digits

\* C5: no superfluous leading zero is accepted: every input in which a
\* number's integer part is 0 followed by another digit is rejected, unsigned
\* (01, [00]) or after a minus sign (-01, -00).
C5_NoLeadingZero == (Done /\ SuperfluousZero) => ~result[1].ok

(***************************************************************************)
(* C6                                                                      *)
(***************************************************************************)

RECURSIVE ScanString(_, _, _)
\* Whether the j-th character lies inside a string literal, scanning from
\* the i-th: a '"' opens a string, which runs to the next '"' that no
\* backslash escapes (the closing quote counts as inside).
ScanString(i, j, inside) ==
    IF i >= j THEN inside
    ELSE IF ~inside THEN ScanString(i + 1, j, input[i] = QUOTE)
    ELSE IF input[i] = BACKSLASH THEN ScanString(i + 2, j, TRUE)
    ELSE ScanString(i + 1, j, input[i] # QUOTE)

InString(j) == ScanString(1, j, FALSE)

RECURSIVE LastNonWhitespace(_)
\* The index of the last character up to the k-th that is no whitespace; 0
\* if there is none.
LastNonWhitespace(k) ==
    IF k = 0 THEN 0
    ELSE IF input[k] \in Whitespace THEN LastNonWhitespace(k - 1)
    ELSE k

RECURSIVE Enclosing(_, _)
\* The index of the bracket or brace that encloses what follows the k-th
\* character: the last one up to k, outside strings, that is still open.
Enclosing(k, closed) ==
    IF k = 0 THEN 0
    ELSE IF InString(k) THEN Enclosing(k - 1, closed)
    ELSE IF input[k] \in {RBRACKET, RBRACE} THEN Enclosing(k - 1, closed + 1)
    ELSE IF input[k] \notin {LBRACKET, LBRACE} THEN Enclosing(k - 1, closed)
    ELSE IF closed = 0 THEN k
    ELSE Enclosing(k - 1, closed - 1)

\* The j-th character stands where an array expects an element, and is ','
\* or ']': after the '[' (then it is ','), or after a ',' of the array.
ArrayElementMissing(j) ==
    LET k == LastNonWhitespace(j - 1)
    IN  /\ ~InString(j)
        /\ k > 0
        /\ ~InString(k)
        /\ \/ input[k] = LBRACKET /\ input[j] = COMMA
           \/ /\ input[k] = COMMA
              /\ input[j] \in {COMMA, RBRACKET}
              /\ Enclosing(k, 0) > 0
              /\ input[Enclosing(k, 0)] = LBRACKET

\* The j-th character is a '}' that follows a ',' of an object.
ObjectMemberMissing(j) ==
    LET k == LastNonWhitespace(j - 1)
    IN  /\ ~InString(j)
        /\ input[j] = RBRACE
        /\ k > 0
        /\ ~InString(k)
        /\ input[k] = COMMA
        /\ Enclosing(k, 0) > 0
        /\ input[Enclosing(k, 0)] = LBRACE

\* C6: a separator must be followed by another element.  When the parse got
\* as far as a ',' or ']' standing where an array expects an element, or a
\* '}' standing after the ',' of an object, it fails with UnexpectedToken
\* carrying that character and its position, never the comma before it.
\* (The cursor of a finished parse is at or past the j-th character only if
\* the parse did not fail before it: after a failure only whitespace is
\* skipped.)
C6_SeparatorNeedsElement ==
    Done =>
        \A j \in 1..Len(input) :
            ((ArrayElementMissing(j) \/ ObjectMemberMissing(j)) /\ pos >= j)
                => Failed(UnexpectedToken(input[j], PrecedingBytes(j)))

\* parse("{\"\":0 , }"): the '}' after the comma, at position 8.
C6_Witness ==
    /\ input = Text(<<"{", "\"", "\"", ":", "0", " ", ",", " ", "}">>)
    /\ ObjectMemberMissing(9)
    /\ Failed(UnexpectedToken(RBRACE, 8))

(***************************************************************************)
(* C7                                                                      *)
(***************************************************************************)

RECURSIVE DecimalDigits(_)
\* The decimal digits of a natural number.
DecimalDigits(n) ==
    IF n < 10 THEN <<ZERO + n>>
    ELSE Append(DecimalDigits(n \div 10), ZERO + (n % 10))

RECURSIVE Serialize(_)
RECURSIVE SerializeElements(_)
RECURSIVE SerializeMembers(_)
\* The JSON text of a value, without whitespace: strings written raw,
\* numbers (naturals here) in decimal.
Serialize(value) ==
    CASE value.type = "Null" -> Text(<<"n", "u", "l", "l">>)
      [] value.type = "True" -> Text(<<"t", "r", "u", "e">>)
      [] value.type = "False" -> Text(<<"f", "a", "l", "s", "e">>)
      [] value.type = "String" -> <<QUOTE>> \o value.string \o <<QUOTE>>
      [] value.type = "Number" ->
            DecimalDigits(value.f64.mantissa)
            \o [i \in 1..value.f64.exponent |-> ZERO]
      [] value.type = "Array" ->
            <<LBRACKET>> \o SerializeElements(value.array) \o <<RBRACKET>>
      [] value.type = "Object" ->
            <<LBRACE>> \o SerializeMembers(value.key_values) \o <<RBRACE>>

SerializeElements(array) ==
    IF array = << >> THEN << >>
    ELSE Serialize(Head(array))
         \o (IF Len(array) > 1 THEN <<COMMA>> ELSE << >>)
         \o SerializeElements(Tail(array))

SerializeMembers(key_values) ==
    IF key_values = << >> THEN << >>
    ELSE <<QUOTE>> \o Head(key_values)[1] \o <<QUOTE, COLON>>
         \o Serialize(Head(key_values)[2])
         \o (IF Len(key_values) > 1 THEN <<COMMA>> ELSE << >>)
         \o SerializeMembers(Tail(key_values))

RECURSIVE WithoutWhitespace(_, _)
\* The input from its i-th character on, less the whitespace outside
\* strings (of an input without escapes).
WithoutWhitespace(i, inside) ==
    IF i > Len(input) THEN << >>
    ELSE IF ~inside /\ input[i] \in Whitespace THEN WithoutWhitespace(i + 1, inside)
    ELSE <<input[i]>> \o WithoutWhitespace(i + 1, inside # (input[i] = QUOTE))

\* The input writes every scalar the way Serialize does: no escape, and no
\* sign, fraction or exponent.
Plain ==
    /\ Chars(input) \cap {BACKSLASH, MINUS, PLUS, DOT} = { }
    /\ \A i \in 1..(Len(input) - 1) :
           input[i] \in Digits => input[i + 1] \notin {Code("e"), Code("E")}

\* C7: a parsed Array has one element per source element and a parsed Object
\* one (key, value) pair per source member, in source order, nested as the
\* brackets nest, duplicate keys all kept: written back element by element
\* and pair by pair, the value is the input less its whitespace.
C7_SourceOrderKept ==
    (Done /\ result[1].ok /\ Plain)
        => Serialize(result[1].value) = WithoutWhitespace(1, FALSE)

\* parse("{\"\":0,\"\":1}"): the key "" twice, both pairs kept in order.
C7_Witness ==
    /\ Plain
    /\ Done
    /\ result[1] = Ok(Object(<< << << >>, Number(Decimal(FALSE, 0, 0)) >>,
                               << << >>, Number(Decimal(FALSE, 1, 0)) >> >>))

(***************************************************************************)
(* C8                                                                      *)
(***************************************************************************)

\* Not a result: the string body holds a unicode escape.
UnicodeEscape == [unicode |-> TRUE]

RECURSIVE StringBody(_, _)
\* What the string production is to return for the body that starts at the
\* i-th character, `text` accumulated so far.
StringBody(i, text) ==
    IF i > Len(input) THEN Err(UnexpectedEndOfInput)
    ELSE IF input[i] = QUOTE THEN Ok(String(text))
    ELSE IF input[i] # BACKSLASH THEN StringBody(i + 1, Append(text, input[i]))
    ELSE IF i + 1 > Len(input) THEN Err(UnexpectedEndOfInput)
    ELSE LET c == input[i + 1]
         IN  CASE c \in Chars(Text(<<"\"", "\\", "/">>)) ->
                    StringBody(i + 2, Append(text, c))
               [] c = Code("n") -> StringBody(i + 2, Append(text, Code("\n")))
               [] c = Code("r") -> StringBody(i + 2, Append(text, Code("\r")))
               [] c = Code("t") -> StringBody(i + 2, Append(text, Code("\t")))
               [] c = Code("u") -> UnicodeEscape
               [] OTHER -> Err(UnexpectedToken(c, PrecedingBytes(i + 1)))

\* The step by which parse_string returns: it returns what StringBody says
\* for the body after the opening quote.
StringReturns ==
    (stack # << >> /\ Top.fn = "parse_string" /\ Len(stack') < Len(stack))
        => LET expected == StringBody(Top.entry + 1, << >>)
           IN  expected # UnicodeEscape => ret' = <<expected>>

\* C8: the string production yields the text up to the first unescaped '"',
\* \" \\ \/ giving that character, \n \r \t newline, carriage return and tab,
\* any other character copied; a backslash before any other character but
\* 'u' ('b' and 'f' too) fails with UnexpectedToken for that character at its
\* position; the end of the input before the closing quote, also right after
\* a backslash, fails with UnexpectedEndOfInput.
C8_StringProduction == [][StringReturns]_vars

\* "\n\t" with its two escapes decoded has been returned by parse_string.
C8_Witness ==
    /\ input = Text(<<"\"", "\\", "n", "\\", "t", "\"">>)
    /\ In("parse_value", "result")
    /\ ret = <<Ok(String(<<LF, TAB>>))>>

(***************************************************************************)
(* C9                                                                      *)
(***************************************************************************)

HexLower ==
    Text(<<"0", "1", "2", "3", "4", "5", "6", "7", "8", "9",
           "a", "b", "c", "d", "e", "f">>)

HexUpper ==
    Text(<<"0", "1", "2", "3", "4", "5", "6", "7", "8", "9",
           "A", "B", "C", "D", "E", "F">>)

IsHex(c) == c \in Chars(HexLower) \cup Chars(HexUpper)

\* The value of a hex digit of either case.
HexValue(c) == (CHOOSE k \in 1..16 : HexLower[k] = c \/ HexUpper[k] = c) - 1

RECURSIVE HexRun(_, _)
\* How many of the characters from the i-th on, at most n, are hex digits in
\* a row.
HexRun(i, n) ==
    IF n > 0 /\ i <= Len(input) /\ IsHex(input[i]) THEN 1 + HexRun(i + 1, n - 1)
    ELSE 0

Surrogates == (13 * 4096 + 8 * 256)..(13 * 4096 + 15 * 256 + 15 * 16 + 15)

\* The step by which parse_unicode returns, the 'u' being the e-th character.
UnicodeReturns ==
    (stack # << >> /\ Top.fn = "parse_unicode" /\ Len(stack') < Len(stack))
        => LET e == Top.entry
               run == HexRun(e + 1, 4)
               value == HexValue(input[e + 1]) * 4096 + HexValue(input[e + 2]) * 256
                        + HexValue(input[e + 3]) * 16 + HexValue(input[e + 4])
           IN  IF run = 4
               THEN /\ pos' = e + 4
                    /\ IF value \in Surrogates
                       THEN ~ret'[1].ok
                       ELSE ret' = <<Ok(value)>>
               ELSE IF e + run + 1 > Len(input)
               THEN ret' = <<Err(UnexpectedEndOfInput)>>
               ELSE /\ pos' = e + run + 1
                    /\ ret' = <<Err(UnexpectedToken(input[pos'], PrecedingBytes(pos')))>>

\* A step of parse_unicode that takes a digit adds the digit's weight to the
\* value, no more than 65535 in all: the u32 sum is the true sum.
UnicodeAccumulates ==
    (stack # << >> /\ Top.fn = "parse_unicode" /\ Len(stack') = Len(stack))
        => /\ stack'[Len(stack)].value =
                  Top.value + 16^(Top.i - 1) * HexValue(input[pos'])
           /\ stack'[Len(stack)].value <= 65535
           /\ pos' = pos + 1

\* C9: the unicode escape production takes exactly four characters when all
\* four are hex digits, of either case, and yields the character
\* d1*4096 + d2*256 + d3*16 + d4; the accumulated value never exceeds 65535,
\* so the u32 additions do not overflow; it fails at the first character that
\* is no hex digit (UnexpectedToken for it, or UnexpectedEndOfInput) and
\* fails exactly when the value is a surrogate, D800..DFFF, each escape
\* decoded on its own.
C9_UnicodeEscape ==
    /\ [][UnicodeReturns]_vars
    /\ [][UnicodeAccumulates]_vars

\* "Aé": the second escape has been decoded, to U+00E9.
C9_Witness ==
    /\ input = Text(<<"\"", "\\", "u", "0", "0", "4", "1",
                      "\\", "u", "0", "0", "e", "9", "\"">>)
    /\ In("parse_string", "unicode")
    /\ ret = <<Ok(E_ACUTE)>>

(***************************************************************************)
(* C10                                                                     *)
(***************************************************************************)

\* The only steps of a run are those of the parser, taken while one is there
\* to take.
FairSpec == Spec /\ WF_vars(Next)

\* The loop of the running function goes round: it neither returns nor ends.
LoopGoesRound ==
    /\ stack # << >>
    /\ \/ /\ Top.fn \in {"consume_whitespace", "collect_digits",
                         "parse_literal", "parse_unicode"}
          /\ Len(stack') = Len(stack)
       \/ In("parse_string", "loop") /\ Len(stack') >= Len(stack)
       \/ In("parse_array", "push") /\ Len(stack') > Len(stack)
       \/ In("parse_object", "value") /\ Len(stack') > Len(stack)

\* The calls of parse_value in progress.
ValueCalls == { i \in DOMAIN stack : stack[i].fn = "parse_value" }

\* Every call of parse_value but the first is made by parse_array or
\* parse_object, with the cursor past where the call around it began.
RecursionAfterBracket ==
    \A j \in ValueCalls :
        \/ j = 2 /\ stack[j].entry = 0
        \/ /\ stack[j - 1].fn \in {"parse_array", "parse_object"}
           /\ stack[j - 2].fn = "parse_value"
           /\ stack[j].entry > stack[j - 2].entry
           /\ \E k \in (stack[j - 2].entry + 1)..stack[j].entry :
                  input[k] \in {LBRACKET, LBRACE}

RECURSIVE Nesting(_, _, _, _)
\* The bracket nesting depth of the input from its i-th character on: the
\* most '[' and '{' open at once, outside strings.
Nesting(i, inside, open, deepest) ==
    IF i > Len(input) THEN deepest
    ELSE IF inside
    THEN IF input[i] = BACKSLASH THEN Nesting(i + 2, TRUE, open, deepest)
         ELSE Nesting(i + 1, input[i] # QUOTE, open, deepest)
    ELSE IF input[i] \in {LBRACKET, LBRACE}
    THEN Nesting(i + 1, FALSE, open + 1,
                 IF open + 1 > deepest THEN open + 1 ELSE deepest)
    ELSE IF input[i] \in {RBRACKET, RBRACE}
    THEN Nesting(i + 1, FALSE, IF open > 0 THEN open - 1 ELSE 0, deepest)
    ELSE Nesting(i + 1, input[i] = QUOTE, open, deepest)

\* C10: parse terminates with a value or an error; the cursor never goes
\* back; every round of every loop takes at least one character; every
\* recursive call of parse_value comes from parse_array or parse_object after
\* one more '[' or '{' has been taken, so that the depth of the recursion is
\* at most the bracket nesting depth of the input plus one.
C10_Terminates ==
    /\ <>Done
    /\ [][pos' >= pos]_vars
    /\ [][LoopGoesRound => pos' > pos]_vars
    /\ []RecursionAfterBracket
    /\ [](Cardinality(ValueCalls) <= Nesting(1, FALSE, 0, 0) + 1)

\* parse("[[[1], 2], 3]") has returned its value, from three levels deep.
C10_Witness ==
    /\ input = Text(<<"[", "[", "[", "1", "]", ",", " ", "2", "]", ",", " ",
                      "3", "]">>)
    /\ Done
    /\ result[1].ok
    /\ Nesting(1, FALSE, 0, 0) = 3

====
